---- MODULE Spec2Model ----
(***************************************************************************)
(* Model of qrplots/qrplots.py (class QRPlots): the structural decoder of  *)
(* a QR symbol matrix.  The matrix comes from the external qrcode library; *)
(* the class classifies its cells into regions, computes the data mask,    *)
(* reverses it and reads the mask id, message length and codification      *)
(* mode.  Python lists are objects on a heap, so that copy.deepcopy and    *)
(* in-place assignment are modelled as what they do to that heap.          *)
(***************************************************************************)
EXTENDS Integers, Naturals, Sequences, FiniteSets, TLC

\* ------------------------------------------------------------------ bounds
\* Largest QR version the encoder produces (side length 17 + 4 * version).
MaxVersion == 1
\* Number of module patterns the encoder and the callers draw grids from.
NumPatterns == 2
\* How many times a returned grid is passed back in as the data argument.
MaxChain == 1

\* --------------------------------------------------------------- constants
C_BACK == 0
C_FRONT == 1
C_FIX_BACK == 2
C_FIX_FRONT == 3
C_MASK == 4

\* None, for an omitted data argument or an attribute not yet set.
NoRef == -1
\* None and a given value, for the optional mask_id argument.
NoMask == << >>
Given(m) == << m >>
\* No exception.
NoErr == "none"

Max(a, b) == IF a >= b THEN a ELSE b
Min(a, b) == IF a <= b THEN a ELSE b

\* The eight mask predicates, keyed as the class keys them.
MASKS(m, i, j) ==
    CASE m = 0 -> ((i * j) % 2) + ((i * j) % 3) = 0
      [] m = 1 -> ((i \div 2) + (j \div 3)) % 2 = 0
      [] m = 2 -> (((i * j) % 3) + i + j) % 2 = 0
      [] m = 3 -> (((i * j) % 3) + (i * j)) % 2 = 0
      [] m = 4 -> i % 2 = 0
      [] m = 5 -> (i + j) % 2 = 0
      [] m = 6 -> (i + j) % 3 = 0
      [] m = 7 -> j % 3 = 0

\* Keys of the MASKS dictionary.
MaskKeys == 0 .. 7

\* A lookup that falls back to the first mask for an unknown key.
MaskLookupDefault(m) == [err |-> NoErr, key |-> IF m \in MaskKeys THEN m ELSE 0]

\* QRPlots.MASKS[mask_id]: the key found, or KeyError.
MaskLookup(m) ==
    IF m \in MaskKeys THEN [err |-> NoErr, key |-> m] ELSE [err |-> "KeyError", key |-> m]

\* ------------------------------------------------------------ python lists
\* A list is a function on 0 .. len-1; a grid is a list of lists.
len(l) == Cardinality(DOMAIN l)

\* Position a (possibly negative) index refers to.
PyIdx(n, k) == IF k < 0 THEN n + k ELSE k

\* Bound of a slice after Python's clamping.
SliceBound(n, k) == IF k < 0 THEN Max(0, n + k) ELSE Min(k, n)

\* The codes a cell can hold.
Cells == {C_BACK, C_FRONT, C_FIX_BACK, C_FIX_FRONT, C_MASK}

\* row[lo:hi] = [f[val] for val in row[lo:hi]] (replacement of equal length).
SetSlice(row, lo, hi, f) ==
    LET n == len(row)
        a == SliceBound(n, lo)
        b == SliceBound(n, hi)
    IN  [j \in DOMAIN row |-> IF a <= j /\ j < b THEN f[row[j]] ELSE row[j]]

\* row[lo:hi] as a sequence, in order.
GetSlice(row, lo, hi) ==
    LET n == len(row)
        a == SliceBound(n, lo)
        b == SliceBound(n, hi)
    IN  [k \in 1 .. Max(0, b - a) |-> row[a + k - 1]]

\* s[::-1]
Reversed(s) == [k \in 1 .. Len(s) |-> s[Len(s) + 1 - k]]

\* str(val) of a cell code, and '1'/'0' characters.
Str(v) == CASE v = 0 -> "0" [] v = 1 -> "1" [] v = 2 -> "2" [] v = 3 -> "3" [] v = 4 -> "4"

\* int(s, 2): the string read as a big-endian binary number.
RECURSIVE IntBase2(_)
IntBase2(s) ==
    IF Len(s) = 0 THEN 0
    ELSE 2 * IntBase2(SubSeq(s, 1, Len(s) - 1)) + (IF s[Len(s)] = "1" THEN 1 ELSE 0)

\* ------------------------------------------------------------------- heap
\* The heap maps object references 0, 1, 2, ... to grids.
NewRef(h) == len(h)

\* No copy at all: the same object under another name.
alias(h, r) == [heap |-> h, ref |-> r]

\* copy.deepcopy(obj): a new object with the same contents.
deepcopy(h, r) ==
    LET new == NewRef(h)
    IN  [heap |-> [k \in 0 .. new |-> IF k = new THEN h[r] ELSE h[k]], ref |-> new]

\* Outcome of a call: the heap it leaves, the value returned, the exception.
Return(h, v) == [heap |-> h, val |-> v, err |-> NoErr]
Raise(h, e) == [heap |-> h, val |-> NoRef, err |-> e]

\* --------------------------------------------------------------- encoder
\* Side length of a symbol of the given version.
ModulesCount(version) == 17 + 4 * version

\* Module patterns standing for the symbol's remaining (already masked) cells.
Pattern(p, i, j) ==
    IF p < 2 THEN (i + j) % 2 = p ELSE ((i * j) + p) % 3 = 0

\* Bit k (0 = least significant) of v.
Bit(v, k) == (v \div (2 ^ k)) % 2 = 1

\* The matrix qr.get_matrix() hands over: the format bits of the mask in row 8,
\* the dark module, and the mode indicator (most significant bit in the
\* bottom-right corner) under the mask the format bits name.
qr_data(n, p, m, mode) ==
    [i \in 0 .. n - 1 |-> [j \in 0 .. n - 1 |->
        IF i = 8 /\ j \in 2 .. 4 THEN Bit(m, 4 - j)
        ELSE IF i = n - 8 /\ j = 8 THEN TRUE
        ELSE IF i >= n - 2 /\ j >= n - 2
             THEN Bit(mode, 3 - (2 * (n - 1 - i) + (n - 1 - j))) # MASKS(m, i, j)
        ELSE Pattern(p, i, j)]]

\* The modes the encoder chooses between (numeric, alphanumeric, byte).
EncoderModes == {1, 2, 4}

\* ------------------------------------------------------------ the methods
\* The two outcomes exchanged.
ReclassifySwapped(val) == IF val = C_FRONT THEN C_FIX_BACK ELSE C_FIX_FRONT

\* val -> C_FIX_FRONT if val == C_FRONT else C_FIX_BACK
Reclassify(val) == IF val = C_FRONT THEN C_FIX_FRONT ELSE C_FIX_BACK

\* [C_FIX_FRONT if val == C_FRONT else C_FIX_BACK for val in ...]
ReclassifyAll == [v \in Cells |-> Reclassify(v)]

\* The three slice assignments of one round of the first loop.
FixedCorner(data, i) ==
    [[[data EXCEPT ![i] = SetSlice(@, 0, 8, ReclassifyAll)]
            EXCEPT ![i] = SetSlice(@, -8, len(@), ReclassifyAll)]
            EXCEPT ![PyIdx(len(data), -8 + i)] = SetSlice(@, 0, 8, ReclassifyAll)]

\* for i in range(8) of _color_fixed_pixels, from round i on.
RECURSIVE FixedCorners(_, _)
FixedCorners(data, i) ==
    IF i >= 8 THEN data ELSE FixedCorners(FixedCorner(data, i), i + 1)

\* data[6][8:-8] = [...]
FixedRow(data) == [data EXCEPT ![6] = SetSlice(@, 8, -8, ReclassifyAll)]

\* for i in range(8, len(data) - 8): data[i][6] = ...
FixedColumn(data) ==
    [i \in DOMAIN data |->
        IF 8 <= i /\ i < len(data) - 8
        THEN [data[i] EXCEPT ![6] = Reclassify(@)]
        ELSE data[i]]

\* data[-8][8] = C_FIX_FRONT
FixedDarkModule(data) == [data EXCEPT ![PyIdx(len(data), -8)][8] = C_FIX_FRONT]

\* The assignments of _color_fixed_pixels, on the grid c.ref of c.heap.
FixedOn(c) ==
    Return([c.heap EXCEPT
               ![c.ref] = FixedDarkModule(FixedColumn(FixedRow(FixedCorners(@, 0))))],
           c.ref)

\* The grid a method works on: self.data when data is None.
Source(self, dataArg) == IF dataArg = NoRef THEN self.data ELSE dataArg

\* _color_fixed_pixels working on the grid itself instead of a copy of it.
color_fixed_pixels_inplace(h, self, dataArg) == FixedOn(alias(h, Source(self, dataArg)))

\* _color_fixed_pixels(data): dataArg is NoRef or the reference of a grid.
color_fixed_pixels(h, self, dataArg) == FixedOn(deepcopy(h, Source(self, dataArg)))

\* Reclassifying by the value instead of overwriting.
ToFixByValue(val) == IF val = C_BACK THEN C_FIX_BACK ELSE C_FIX_FRONT

\* Overwriting with the wrong code.
ToFixFront(val) == C_FIX_FRONT

\* An element of the list [C_FIX_BACK] * k that overwrites a slice.
ToFixBack(val) == C_FIX_BACK

\* [C_FIX_BACK] * k
FixBackAll == [v \in Cells |-> ToFixBack(v)]

\* The slice assignments of one round of the first loop.
CfgCorner(data, i) ==
    IF i < 8
    THEN [[[data EXCEPT ![i] = SetSlice(@, 0, 9, FixBackAll)]
                 EXCEPT ![i] = SetSlice(@, -8, len(@), FixBackAll)]
                 EXCEPT ![PyIdx(len(data), -8 + i)] = SetSlice(@, 0, 8, FixBackAll)]
    ELSE [[data EXCEPT ![i] = SetSlice(@, 0, 9, FixBackAll)]
                EXCEPT ![i] = SetSlice(@, -8, len(@), FixBackAll)]

\* for i in range(9) of _color_cfg_pixels, from round i on.
RECURSIVE CfgCorners(_, _)
CfgCorners(data, i) ==
    IF i >= 9 THEN data ELSE CfgCorners(CfgCorner(data, i), i + 1)

\* data[6][8:-8] = [C_FIX_BACK] * (len(data) - 16)
CfgRow(data) == [data EXCEPT ![6] = SetSlice(@, 8, -8, FixBackAll)]

\* The column-6 loop one row short.
CfgColumnShort(data) ==
    [i \in DOMAIN data |->
        IF 9 <= i /\ i < len(data) - 9 THEN [data[i] EXCEPT ![6] = C_FIX_BACK] ELSE data[i]]

\* for i in range(9, len(data) - 8): data[i][6] = C_FIX_BACK
CfgColumn(data) ==
    [i \in DOMAIN data |->
        IF 9 <= i /\ i < len(data) - 8 THEN [data[i] EXCEPT ![6] = C_FIX_BACK] ELSE data[i]]

\* for i in range(8): data[-8 + i][8] = C_FIX_BACK
CfgFormatColumn(data) ==
    [i \in DOMAIN data |->
        IF len(data) - 8 <= i THEN [data[i] EXCEPT ![8] = C_FIX_BACK] ELSE data[i]]

\* if hide_rb: for i in range(6): data[-6 + i][-2:] = [C_FIX_BACK] * 2
CfgHide(data, hide_rb) ==
    IF hide_rb
    THEN [i \in DOMAIN data |->
            IF len(data) - 6 <= i THEN SetSlice(data[i], -2, len(data[i]), FixBackAll)
            ELSE data[i]]
    ELSE data

\* The assignments of _color_cfg_pixels, on the grid c.ref of c.heap.
CfgOn(c, hide_rb) ==
    Return([c.heap EXCEPT
               ![c.ref] = CfgHide(CfgFormatColumn(CfgColumn(CfgRow(CfgCorners(@, 0)))),
                                  hide_rb)],
           c.ref)

\* _color_cfg_pixels(data, hide_rb)
color_cfg_pixels(h, self, dataArg, hide_rb) ==
    CfgOn(deepcopy(h, Source(self, dataArg)), hide_rb)

\* "".join(('1' if val == C_FRONT else '0' for val in vals))
JoinBits(vals) == [k \in 1 .. Len(vals) |-> IF vals[k] = C_FRONT THEN "1" ELSE "0"]

\* mask_id(): the three format bits of row 8 of self.data.
mask_id(h, self) ==
    IF 8 >= len(h[self.data]) THEN Raise(h, "IndexError")
    ELSE Return(h, IntBase2(JoinBits(GetSlice(h[self.data][8], 2, 5))))

\* if mask_id is None: mask_id = self.mask_id()
ResolveMask(h, self, maskArg) ==
    IF maskArg = NoMask THEN mask_id(h, self) ELSE Return(h, maskArg[1])

\* The double loop of _color_mask over the grid data.
Overlay(data, key, show_data) ==
    [i \in DOMAIN data |-> [j \in DOMAIN data[0] |->
        IF data[i][j] = C_FIX_BACK THEN data[i][j]
        ELSE IF MASKS(key, i, j) THEN C_MASK
        ELSE IF ~show_data THEN C_BACK
        ELSE data[i][j]]]

\* _color_mask once data = self._color_cfg_pixels() (r) and the lookup are done.
ColorMaskOn(r, mask_fun, show_data) ==
    IF mask_fun.err # NoErr THEN Raise(r.heap, mask_fun.err)
    ELSE Return([r.heap EXCEPT ![r.val] = Overlay(@, mask_fun.key, show_data)], r.val)

\* _color_mask with the mask id resolved to mi.
ColorMaskWith(h, self, show_data, mi) ==
    IF mi.err # NoErr THEN mi
    ELSE ColorMaskOn(color_cfg_pixels(h, self, NoRef, FALSE), MaskLookup(mi.val), show_data)

\* _color_mask(show_data, mask_id)
color_mask(h, self, show_data, maskArg) ==
    ColorMaskWith(h, self, show_data, ResolveMask(h, self, maskArg))

\* A flip that only ever clears.
FlipStuck(val) == C_BACK

\* data[i][j] = C_BACK if data[i][j] == C_FRONT else C_FRONT
Flip(val) == IF val = C_FRONT THEN C_BACK ELSE C_FRONT

\* The double loop of _reverse_mask over the grids data and mask.
Flipped(data, mask) ==
    [i \in DOMAIN mask |-> [j \in DOMAIN mask[0] |->
        IF mask[i][j] = C_MASK THEN Flip(data[i][j]) ELSE data[i][j]]]

\* _reverse_mask once data (at ref) is copied and mask = self._color_mask() (m).
ReverseOn(ref, m) ==
    IF m.err # NoErr THEN m
    ELSE Return([m.heap EXCEPT ![ref] = Flipped(@, m.heap[m.val])], ref)

\* _reverse_mask from the copy c of self.data on.
ReverseFrom(c, self, key) == ReverseOn(c.ref, color_mask(c.heap, self, FALSE, Given(key)))

\* _reverse_mask with the mask id resolved to mi.
ReverseWith(h, self, mi) ==
    IF mi.err # NoErr THEN mi ELSE ReverseFrom(deepcopy(h, self.data), self, mi.val)

\* _reverse_mask(mask_id)
reverse_mask(h, self, maskArg) == ReverseWith(h, self, ResolveMask(h, self, maskArg))

\* "".join(map(str, vals))
JoinStr(vals) == [k \in 1 .. Len(vals) |-> Str(vals[k])]

\* "".join(map(str, row[-2:]))
LastTwo(row) == JoinStr(GetSlice(row, -2, len(row)))

\* len_bin of msg_len() for the grid rev.
LenBin(rev) ==
    LastTwo(rev[PyIdx(len(rev), -6)]) \o LastTwo(rev[PyIdx(len(rev), -5)])
    \o LastTwo(rev[PyIdx(len(rev), -4)]) \o LastTwo(rev[PyIdx(len(rev), -3)])

\* msg_len() without the reversal of the string.
msg_len_unreversed(h, self) == Return(h, IntBase2(LenBin(h[self.data_rev])))

\* msg_len()
msg_len(h, self) == Return(h, IntBase2(Reversed(LenBin(h[self.data_rev]))))

\* cod_mode of codification_mode() for the grid rev.
CodMode(rev) == LastTwo(rev[PyIdx(len(rev), -2)]) \o LastTwo(rev[PyIdx(len(rev), -1)])

\* codification_mode()
codification_mode(h, self) == Return(h, IntBase2(Reversed(CodMode(h[self.data_rev]))))

\* The assertion compiled away.
AssertModeOff(cm) == NoErr

\* assert self.codification_mode() == 4
AssertMode(cm) == IF cm = 4 THEN NoErr ELSE "AssertionError"

\* self.data: the matrix as C_FRONT / C_BACK cells.
ToCells(matrix) ==
    [i \in DOMAIN matrix |-> [j \in DOMAIN matrix[i] |->
        IF matrix[i][j] THEN C_FRONT ELSE C_BACK]]

\* The object while __init__ runs, before self.data_rev is set.
Unfinished == [data |-> 0, data_rev |-> NoRef]

\* The end of __init__: the mode of the finished object is asserted.
InitAssert(h, s) == [heap |-> h, self |-> s, err |-> AssertMode(codification_mode(h, s).val)]

\* self.data_rev = self._reverse_mask() (r), then the assertion.
InitCache(r) ==
    IF r.err # NoErr THEN [heap |-> r.heap, self |-> Unfinished, err |-> r.err]
    ELSE InitAssert(r.heap, [Unfinished EXCEPT !.data_rev = r.val])

\* __init__: the matrix of the encoder becomes self.data, the demasked grid is
\* cached, and the mode is asserted.
init(matrix) == InitCache(reverse_mask([k \in 0 .. 0 |-> ToCells(matrix)], Unfinished, NoMask))

\* ---------------------------------------------------------- state machine
VARIABLES
    encoder,  \* where the matrix comes from: "qrcode" or any "supplied" matrix
    pc,       \* "new", "ready" (constructed), "failed" (__init__ raised)
    heap,     \* the grids alive, by reference
    self,     \* the attributes of the object: references into the heap
    inp,      \* reference of the grid the last call took as its data
    ret,      \* what the last call returned
    err,      \* the exception the last call raised, or NoErr
    op,       \* the last call and its arguments
    depth,    \* how many calls in a row took the previous result as data
    born      \* the attributes' contents and mask_id() right after __init__

vars == << encoder, pc, heap, self, inp, ret, err, op, depth, born >>

NoRet == [kind |-> "none", val |-> NoRef]
NoOp == [name |-> "none", data |-> "none", p |-> 0, flag |-> FALSE, mask |-> NoMask,
         from |-> "none", fromflag |-> FALSE]

\* The side lengths the matrix can have.
Sizes(enc) ==
    IF enc = "qrcode" THEN {ModulesCount(v) : v \in 1 .. MaxVersion}
    ELSE {7, 17} \cup {ModulesCount(v) : v \in 1 .. MaxVersion}

\* The references in roots that are alive, each once, in order of appearance.
RECURSIVE Live(_, _)
Live(roots, k) ==
    IF k = 0 THEN << >>
    ELSE IF roots[k] = NoRef \/ \E q \in 1 .. k - 1 : roots[q] = roots[k]
    THEN Live(roots, k - 1)
    ELSE Append(Live(roots, k - 1), roots[k])

\* The new reference of the object x when only the objects of live remain.
Moved(live, x) ==
    IF x = NoRef THEN NoRef ELSE (CHOOSE q \in 1 .. Len(live) : live[q] = x) - 1

\* The heap and the references after the objects of live are renumbered.
Compact(h, live, s, i, r) ==
    [heap |-> [k \in 0 .. Len(live) - 1 |-> h[live[k + 1]]],
     self |-> [data |-> Moved(live, s.data), data_rev |-> Moved(live, s.data_rev)],
     inp |-> Moved(live, i), ret |-> Moved(live, r)]

\* Garbage collection: only the grids that self, the caller's argument and the
\* returned value refer to stay alive.
Collect(h, s, i, r) == Compact(h, Live(<< s.data, s.data_rev, i, r >>, 4), s, i, r)

Init ==
    /\ encoder = "qrcode"
    /\ pc = "new"
    /\ heap = << >>
    /\ self = [data |-> NoRef, data_rev |-> NoRef]
    /\ inp = NoRef
    /\ ret = NoRet
    /\ err = NoErr
    /\ op = NoOp
    /\ depth = 0
    /\ born = << >>

\* The state after __init__ ended as r, with g what stays on the heap.
Built(r, g, p) ==
    /\ pc' = IF r.err = NoErr THEN "ready" ELSE "failed"
    /\ heap' = g.heap
    /\ self' = g.self
    /\ err' = r.err
    /\ op' = [NoOp EXCEPT !.name = "__init__", !.p = p]
    /\ born' = IF r.err = NoErr
               THEN << g.heap[g.self.data], g.heap[g.self.data_rev],
                       mask_id(g.heap, g.self).val >>
               ELSE << >>
    /\ UNCHANGED << encoder, inp, ret, depth >>

Constructed(r, p) == Built(r, Collect(r.heap, r.self, NoRef, NoRef), p)

\* QRPlots(qr_text, error_correction): the encoder's matrix for some text.
Construct ==
    \E n \in Sizes(encoder), p \in 0 .. NumPatterns - 1, m \in MaskKeys, mode \in EncoderModes :
        /\ pc = "new"
        /\ Constructed(init(qr_data(n, p, m, mode)), p)

\* The grid a caller builds itself and passes as data.
CallerGrid(n, p) ==
    [i \in 0 .. n - 1 |-> [j \in 0 .. n - 1 |-> IF Pattern(p, i, j) THEN C_FRONT ELSE C_BACK]]

\* The choices of the data argument: omitted, self.data_rev, the grid the
\* previous call returned, or a grid of the caller's.
DataArgs ==
    {[kind |-> "omitted", p |-> 0], [kind |-> "data_rev", p |-> 0]}
    \cup (IF ret.kind = "grid" /\ depth < MaxChain THEN {[kind |-> "ret", p |-> 0]} ELSE {})
    \cup (IF ret.kind = "none" THEN {[kind |-> "caller", p |-> q] : q \in 0 .. NumPatterns - 1} ELSE {})

\* The heap with the argument on it, and the reference passed as data.
Passed(a) ==
    CASE a.kind = "omitted" -> [heap |-> heap, ref |-> NoRef]
      [] a.kind = "data_rev" -> [heap |-> heap, ref |-> self.data_rev]
      [] a.kind = "ret" -> [heap |-> heap, ref |-> ret.val]
      [] a.kind = "caller" ->
            [heap |-> [k \in 0 .. NewRef(heap) |->
                          IF k = NewRef(heap) THEN CallerGrid(len(heap[self.data]), a.p)
                          ELSE heap[k]],
             ref |-> NewRef(heap)]

\* The caller may call when it holds no result, or pass the result it holds on.
MayCall(kind) == pc = "ready" /\ (ret.kind = "none" \/ kind = "ret")

\* The state after a call that ended as r, with g what stays on the heap.
Landed(r, g, kind, o) ==
    /\ heap' = g.heap
    /\ self' = g.self
    /\ inp' = g.inp
    /\ ret' = IF r.err # NoErr THEN [kind |-> "raised", val |-> NoRef]
              ELSE IF kind = "grid" THEN [kind |-> "grid", val |-> g.ret]
              ELSE [kind |-> "int", val |-> r.val]
    /\ err' = r.err
    /\ op' = [o EXCEPT !.from = IF o.data = "ret" THEN op.name ELSE "none",
                       !.fromflag = IF o.data = "ret" THEN op.flag ELSE FALSE]
    /\ depth' = IF o.data = "ret" THEN depth + 1 ELSE 0
    /\ UNCHANGED << encoder, pc, born >>

\* The state after a call that took the grid i as data and ended as r.
Called(r, i, kind, o) ==
    Landed(r, Collect(r.heap, self, i, IF kind = "grid" THEN r.val ELSE NoRef), kind, o)

\* _color_fixed_pixels(data) with the argument x.
ColorFixedPixelsOf(x, a) ==
    Called(color_fixed_pixels(x.heap, self, x.ref), Source(self, x.ref), "grid",
           [NoOp EXCEPT !.name = "color_fixed_pixels", !.data = a.kind, !.p = a.p])

\* _color_cfg_pixels(data, hide_rb) with the argument x.
ColorCfgPixelsOf(x, a, hide_rb) ==
    Called(color_cfg_pixels(x.heap, self, x.ref, hide_rb), Source(self, x.ref), "grid",
           [NoOp EXCEPT !.name = "color_cfg_pixels", !.data = a.kind, !.p = a.p,
                        !.flag = hide_rb])

ColorFixedPixels ==
    \E a \in DataArgs :
        /\ MayCall(a.kind)
        /\ ColorFixedPixelsOf(Passed(a), a)

ColorCfgPixels ==
    \E a \in DataArgs, hide_rb \in BOOLEAN :
        /\ MayCall(a.kind)
        /\ ColorCfgPixelsOf(Passed(a), a, hide_rb)

\* The mask ids a caller passes: none, the eight keys, and one beyond each end.
MaskArgs == {NoMask} \cup {Given(m) : m \in -1 .. 8}

ColorMask ==
    \E show_data \in BOOLEAN, m \in MaskArgs :
        /\ MayCall("omitted")
        /\ Called(color_mask(heap, self, show_data, m), self.data, "grid",
                  [NoOp EXCEPT !.name = "color_mask", !.flag = show_data, !.mask = m])

ReverseMask ==
    \E m \in MaskArgs :
        /\ MayCall("omitted")
        /\ Called(reverse_mask(heap, self, m), self.data, "grid",
                  [NoOp EXCEPT !.name = "reverse_mask", !.mask = m])

MaskId ==
    /\ MayCall("omitted")
    /\ Called(mask_id(heap, self), self.data, "int", [NoOp EXCEPT !.name = "mask_id"])

MsgLen ==
    /\ MayCall("omitted")
    /\ Called(msg_len(heap, self), self.data_rev, "int", [NoOp EXCEPT !.name = "msg_len"])

CodificationMode ==
    /\ MayCall("omitted")
    /\ Called(codification_mode(heap, self), self.data_rev, "int",
              [NoOp EXCEPT !.name = "codification_mode"])

\* The state once the caller holds nothing, with g what stays on the heap.
Dropped(g) ==
    /\ heap' = g.heap
    /\ self' = g.self
    /\ inp' = NoRef
    /\ ret' = NoRet
    /\ err' = NoErr
    /\ op' = NoOp
    /\ depth' = 0
    /\ UNCHANGED << encoder, pc, born >>

\* The caller lets go of what the last call returned.
Discard ==
    /\ pc = "ready"
    /\ ret.kind # "none"
    /\ Dropped(Collect(heap, self, NoRef, NoRef))

Next ==
    \/ Construct
    \/ ColorFixedPixels
    \/ ColorCfgPixels
    \/ ColorMask
    \/ ReverseMask
    \/ MaskId
    \/ MsgLen
    \/ CodificationMode
    \/ Discard

Spec == Init /\ [][Next]_vars

\* The same program fed by an encoder that may supply a matrix of any size.
InitSupplied ==
    /\ encoder = "supplied"
    /\ pc = "new"
    /\ heap = << >>
    /\ self = [data |-> NoRef, data_rev |-> NoRef]
    /\ inp = NoRef
    /\ ret = NoRet
    /\ err = NoErr
    /\ op = NoOp
    /\ depth = 0
    /\ born = << >>

SpecSupplied == InitSupplied /\ [][Next]_vars

\* ----------------------------------------------------------------- claims
\* The raw grid, the cached demasked grid, the side length, the last result.
Raw == heap[self.data]
Rev == heap[self.data_rev]
N == len(Raw)
Result == heap[ret.val]
Input == heap[inp]

\* The last call was the named one and it returned a grid.
Returned(name) == pc = "ready" /\ op.name = name /\ ret.kind = "grid"

\* Only DataBack and DataFront cells.
IsDataGrid(g) == \A i \in DOMAIN g : \A j \in DOMAIN g[i] : g[i][j] \in {C_BACK, C_FRONT}

\* DataFront = 1, DataBack = 0.
B(g, i, j) == IF g[i][j] = C_FRONT THEN 1 ELSE 0

\* The mask id the last call worked with: the one given, else the format bits.
UsedMask == IF op.mask = NoMask THEN 4 * B(Raw, 8, 2) + 2 * B(Raw, 8, 3) + B(Raw, 8, 4)
            ELSE op.mask[1]

\* The footprint of the fixed pixels, as the specification lists it.
InFixedFootprint(n, i, j) ==
    \/ i <= 7 /\ j <= 7
    \/ i <= 7 /\ j >= n - 8
    \/ i >= n - 8 /\ j <= 7
    \/ i = 6 /\ 8 <= j /\ j <= n - 9
    \/ j = 6 /\ 8 <= i /\ i <= n - 9
    \/ i = n - 8 /\ j = 8

\* The footprint of the configuration pixels, as the specification lists it.
InCfgFootprint(n, i, j) ==
    \/ i <= 8 /\ j <= 8
    \/ i <= 8 /\ j >= n - 8
    \/ i >= n - 8 /\ j <= 8
    \/ i = 6 /\ 8 <= j /\ j <= n - 9
    \/ j = 6 /\ 9 <= i /\ i <= n - 9

\* The length and mode cells hide_rb blanks.
InLengthMode(n, i, j) == i >= n - 6 /\ j >= n - 2

\* The demasked grid of a decoder whose raw grid is g.
Demasked(g, m) ==
    LET r == reverse_mask([k \in 0 .. 0 |-> g], [data |-> 0, data_rev |-> NoRef], Given(m))
    IN  r.heap[r.val]

\* C1: demasking the demasked grid again with the same mask id gives back the
\* raw grid, for every mask id 0..7.
InvC1MaskInvolution ==
    (Returned("reverse_mask") /\ op.mask # NoMask /\ N >= 21)
        => Demasked(Result, op.mask[1]) = Raw

WitC1MaskInvolution ==
    /\ Returned("reverse_mask")
    /\ op.mask = Given(3)
    /\ N >= 21
    /\ Result # Raw
    /\ Demasked(Result, 3) = Raw

\* C2: no call changes the raw grid or the cached demasked grid: both are as
\* they were right after construction, and so is what mask_id() reads.
InvC2NoMutation ==
    pc = "ready" =>
        /\ Raw = born[1]
        /\ Rev = born[2]
        /\ mask_id(heap, self).val = born[3]

WitC2NoMutation ==
    /\ Returned("color_cfg_pixels")
    /\ op.data = "omitted"
    /\ op.flag
    /\ Result # Raw
    /\ Raw = born[1]

\* The mode field as the specification reads it: cells (N-2,N-2), (N-2,N-1),
\* (N-1,N-2), (N-1,N-1) of the demasked grid, least significant first.
ModeField(g) ==
    LET n == len(g)
    IN  B(g, n - 2, n - 2) + 2 * B(g, n - 2, n - 1) + 4 * B(g, n - 1, n - 2)
        + 8 * B(g, n - 1, n - 1)

\* The length field: cells (N-6,N-2), (N-6,N-1), ..., (N-3,N-1) of the demasked
\* grid, least significant first.
LengthField(g) ==
    LET n == len(g)
    IN  B(g, n - 6, n - 2) + 2 * B(g, n - 6, n - 1) + 4 * B(g, n - 5, n - 2)
        + 8 * B(g, n - 5, n - 1) + 16 * B(g, n - 4, n - 2) + 32 * B(g, n - 4, n - 1)
        + 64 * B(g, n - 3, n - 2) + 128 * B(g, n - 3, n - 1)

\* C3: construction fails with the assertion exactly when the mode read from
\* the cached demasked grid is not 4; a constructed decoder's
\* codification_mode() is 4 on every call.
InvC3ByteModeEnforced ==
    /\ pc # "new" =>
          ((pc = "failed" /\ err = "AssertionError") <=> ModeField(Rev) # 4)
    /\ (pc = "ready" /\ op.name = "codification_mode") => (ret.kind = "int" /\ ret.val = 4)

WitC3ByteModeEnforced ==
    /\ pc = "failed"
    /\ err = "AssertionError"
    /\ ModeField(Rev) # 4

\* C4: mask_id() is 4*b(8,2) + 2*b(8,3) + b(8,4) of the raw grid; msg_len() and
\* codification_mode() are the length and mode fields of the demasked grid
\* read least significant bit first; each lies in its range.
InvC4FieldExtraction ==
    (pc = "ready" /\ N >= 21 /\ ret.kind = "int") =>
        /\ op.name = "mask_id" =>
              /\ ret.val = 4 * B(Raw, 8, 2) + 2 * B(Raw, 8, 3) + B(Raw, 8, 4)
              /\ ret.val \in 0 .. 7
        /\ op.name = "msg_len" => (ret.val = LengthField(Rev) /\ ret.val \in 0 .. 255)
        /\ op.name = "codification_mode" => (ret.val = ModeField(Rev) /\ ret.val \in 0 .. 15)

WitC4FieldExtraction ==
    /\ pc = "ready"
    /\ N >= 21
    /\ op.name = "msg_len"
    /\ ret.kind = "int"
    /\ ret.val = LengthField(Rev)
    /\ B(Rev, N - 6, N - 2) # B(Rev, N - 3, N - 1)

\* The last call was _color_fixed_pixels on a grid of data cells, N >= 21.
FixedOnDataGrid == Returned("color_fixed_pixels") /\ len(Input) >= 21 /\ IsDataGrid(Input)

\* C5 as stated: every cell of the fixed footprint, the module at (N-8, 8)
\* included, becomes FixedFront if it was DataFront and FixedBack otherwise;
\* every other cell is as in the input.
InvC5ReclassifyAll ==
    FixedOnDataGrid =>
        \A i \in DOMAIN Input : \A j \in DOMAIN Input :
            Result[i][j] = IF InFixedFootprint(len(Input), i, j)
                           THEN (IF Input[i][j] = C_FRONT THEN C_FIX_FRONT ELSE C_FIX_BACK)
                           ELSE Input[i][j]

\* C5 as amended: the same, except that the module at (N-8, 8) is FixedFront
\* whatever the input holds there.
InvC5ReclassifyButDarkModule ==
    FixedOnDataGrid =>
        \A i \in DOMAIN Input : \A j \in DOMAIN Input :
            Result[i][j] = IF i = len(Input) - 8 /\ j = 8 THEN C_FIX_FRONT
                           ELSE IF InFixedFootprint(len(Input), i, j)
                           THEN (IF Input[i][j] = C_FRONT THEN C_FIX_FRONT ELSE C_FIX_BACK)
                           ELSE Input[i][j]

WitC5ReclassifyButDarkModule ==
    /\ FixedOnDataGrid
    /\ Input[len(Input) - 8][8] = C_BACK
    /\ Result[len(Input) - 8][8] = C_FIX_FRONT
    /\ Result[0][0] = C_FIX_FRONT
    /\ Result[0][1] = C_FIX_BACK
    /\ Result[9][9] = Input[9][9]

\* C6: _color_cfg_pixels makes every cell of its footprint FixedBack, with
\* hide_rb also the length and mode cells, and leaves every other cell as in
\* the input.
InvC6CfgFootprint ==
    (Returned("color_cfg_pixels") /\ len(Input) >= 21) =>
        \A i \in DOMAIN Input : \A j \in DOMAIN Input :
            Result[i][j] = IF \/ InCfgFootprint(len(Input), i, j)
                              \/ op.flag /\ InLengthMode(len(Input), i, j)
                           THEN C_FIX_BACK
                           ELSE Input[i][j]

WitC6CfgFootprint ==
    /\ Returned("color_cfg_pixels")
    /\ len(Input) >= 21
    /\ ~op.flag
    /\ Input[8][8] = C_FRONT
    /\ Result[8][8] = C_FIX_BACK
    /\ Result[len(Input) - 1][len(Input) - 1] = C_FRONT

\* C7: _color_cfg_pixels applied to the grid _color_cfg_pixels returned, with
\* the same hide_rb, returns a grid equal to the one it was given.
InvC7CfgIdempotent ==
    (/\ Returned("color_cfg_pixels")
     /\ op.data = "ret"
     /\ op.from = "color_cfg_pixels"
     /\ op.fromflag = op.flag
     /\ len(Input) >= 21)
        => Result = Input

WitC7CfgIdempotent ==
    /\ Returned("color_cfg_pixels")
    /\ op.data = "ret"
    /\ op.from = "color_cfg_pixels"
    /\ op.fromflag
    /\ op.flag
    /\ Result = Input
    /\ Result # Raw

InvalidMaskCall ==
    /\ pc = "ready"
    /\ op.name \in {"color_mask", "reverse_mask"}
    /\ op.mask # NoMask
    /\ op.mask[1] \notin 0 .. 7

\* C9: a mask id outside 0..7 ends _color_mask and _reverse_mask with the
\* error of the failed lookup; nothing is returned and the raw and demasked
\* grids are as before.
InvC9InvalidMaskId ==
    InvalidMaskCall =>
        /\ err = "KeyError"
        /\ ret.kind = "raised"
        /\ ret.val = NoRef
        /\ Raw = born[1]
        /\ Rev = born[2]

WitC9InvalidMaskId ==
    /\ InvalidMaskCall
    /\ op.name = "reverse_mask"
    /\ op.mask = Given(8)
    /\ err = "KeyError"

\* C10: _color_mask without show_data highlights exactly the cells outside
\* the configuration footprint where the mask function is true, and
\* _reverse_mask is the raw grid with exactly those cells flipped.
InvC10DemaskFlipsHighlighted ==
    /\ (Returned("color_mask") /\ ~op.flag /\ N >= 21) =>
          \A i \in DOMAIN Raw : \A j \in DOMAIN Raw :
              (Result[i][j] = C_MASK)
                  <=> (~InCfgFootprint(N, i, j) /\ MASKS(UsedMask, i, j))
    /\ (Returned("reverse_mask") /\ N >= 21) =>
          \A i \in DOMAIN Raw : \A j \in DOMAIN Raw :
              Result[i][j] = IF ~InCfgFootprint(N, i, j) /\ MASKS(UsedMask, i, j)
                             THEN 1 - Raw[i][j]
                             ELSE Raw[i][j]

WitC10DemaskFlipsHighlighted ==
    /\ Returned("reverse_mask")
    /\ N >= 21
    /\ op.mask = Given(6)
    /\ Result[9][9] = 1 - Raw[9][9]
    /\ Result[9][10] = Raw[9][10]
    /\ Result[8][2] = Raw[8][2]

====
